---- MODULE Spec2Model ----
(***************************************************************************)
(* Model of calendar_mcp_server.py: the credential handling of             *)
(* get_calendar_service and the six tool operations built on it.           *)
(*                                                                         *)
(* The persisted token file, the authorization server and the calendar     *)
(* provider are the environment.  Each tool call is a caller's walk        *)
(* through get_calendar_service (load, refresh or grant, truncate, write)  *)
(* followed by one remote call and the formatting of its response.         *)
(***************************************************************************)
EXTENDS Integers, Sequences, FiniteSets, TLC

\* Cap on the number of access tokens the authorization server issues.
MaxIssued == 3
\* Cap on the number of items in one list response of the provider.
MaxItems == 2

\* The callers the dispatcher may run; two are enough for an interleaving.
Callers == {"c1", "c2"}

Ops == {"list_upcoming_events", "get_event_details", "create_event",
        "search_events", "list_calendars", "get_events_in_date_range"}

ListOps == Ops \ {"get_event_details", "create_event"}

EventOps == Ops \ {"list_calendars"}

VARIABLES
    dispatcher,     \* "serial": one call at a time; "concurrent": interleaved
    token_json,     \* the file token.json: [exists, content]
    issued,         \* number of access tokens issued so far by the server
    expired_upto,   \* access tokens with expiry <= expired_upto have expired
    pc,             \* each caller's position in its call
    creds,          \* the local variable creds: <<>> is None
    loaded,         \* what lines 25-26 found in the file, as seen at line 28
    steps,          \* the branches of get_calendar_service the call has taken
    writes,         \* the credentials the call has written to token.json
    fresh,          \* the credential was non-expired when the service was built
    returned        \* the call that has just returned to the dispatcher, if any

vars == <<dispatcher, token_json, issued, expired_upto, pc, creds, loaded,
          steps, writes, fresh, returned>>

----------------------------------------------------------------------------
\* Python values

\* Python's None, where a string was expected.
None == "<None>"

\* The empty dict.
EmptyDict == [k \in {} |-> ""]

\* dict.get(key, default)
Get(d, key, default) == IF key \in DOMAIN d THEN d[key] ELSE default

----------------------------------------------------------------------------
\* Credentials

\* A credential: token 0 is "no access token"; expiry names the moment it
\* expires; refresh_token "" is "no refresh token".
Credential(token, expiry, refresh_token) ==
    [token |-> token, expiry |-> expiry, refresh_token |-> refresh_token]

\* Credentials.expired
Expired(c) == c.expiry <= expired_upto

\* Credentials.valid without the look at the expiry.
ValidIgnoringExpiry(c) == c.token # 0

\* Credentials.valid
Valid(c) == c.token # 0 /\ ~Expired(c)

NoFile == [exists |-> FALSE, content |-> <<>>]

TruncatedFile == [exists |-> TRUE, content |-> <<>>]

FileWith(c) == [exists |-> TRUE, content |-> <<c>>]

\* The token files a previous session may have left behind.
InitialFiles ==
    {NoFile} \cup
    {FileWith(Credential(t, 1, r)) : t \in {0, 1}, r \in {"", "rt_good", "rt_revoked"}}

Raise(exc) == [kind |-> "raise", list |-> FALSE, value |-> <<>>, exc |-> exc]

ReturnOne(record) == [kind |-> "return", list |-> FALSE, value |-> <<record>>, exc |-> ""]

ReturnList(records) == [kind |-> "return", list |-> TRUE, value |-> records, exc |-> ""]

NotLoaded == [file |-> "unread", token |-> 0, expired |-> FALSE, refresh_token |-> ""]

\* No call returns in this state.
NoCall == [op |-> "none", request |-> <<>>, fresh |-> FALSE, response |-> <<>>,
           result |-> [kind |-> "none", list |-> FALSE, value |-> <<>>, exc |-> ""]]

\* A call that ended in get_calendar_service, before any remote call: the
\* exception passes through the operation, whose except clause names
\* HttpError only.
Aborted(exc) == [NoCall EXCEPT !.op = "any", !.result = Raise(exc)]

Init ==
    /\ dispatcher \in {"serial", "concurrent"}
    /\ token_json \in InitialFiles
    /\ issued = 1
    /\ expired_upto \in {0, 1}
    /\ pc = [p \in Callers |-> "idle"]
    /\ creds = [p \in Callers |-> <<>>]
    /\ loaded = [p \in Callers |-> NotLoaded]
    /\ steps = [p \in Callers |-> {}]
    /\ writes = [p \in Callers |-> <<>>]
    /\ fresh = [p \in Callers |-> FALSE]
    /\ returned = NoCall

----------------------------------------------------------------------------
\* get_calendar_service

\* Caller p stands at the given place, and the dispatcher has taken the
\* result of the call that ended before.  Handing over a result touches
\* nothing a call in progress reads, so it is the step that follows the end
\* of a call.
At(p, place) ==
    /\ returned.op = "none"
    /\ pc[p] = place

\* The dispatcher takes the result, or the exception, of the call that ended.
Deliver ==
    /\ returned.op # "none"
    /\ returned' = NoCall
    /\ UNCHANGED <<dispatcher, token_json, issued, expired_upto, pc, creds,
                   loaded, steps, writes, fresh>>

\* The dispatcher starts a tool call.  Every operation begins with
\* get_calendar_service() and differs from the others only from its remote
\* call on, so the operation is named by the action that issues that call.
Call(p) ==
    /\ At(p, "idle")
    /\ dispatcher = "serial" => \A q \in Callers : pc[q] = "idle"
    /\ pc' = [pc EXCEPT ![p] = "load"]
    /\ returned' = NoCall
    /\ UNCHANGED <<dispatcher, token_json, issued, expired_upto, creds, loaded,
                   steps, writes, fresh>>

\* The call of caller p is over: its locals are gone.
Finished(p) ==
    /\ pc' = [pc EXCEPT ![p] = "idle"]
    /\ creds' = [creds EXCEPT ![p] = <<>>]
    /\ loaded' = [loaded EXCEPT ![p] = NotLoaded]
    /\ steps' = [steps EXCEPT ![p] = {}]
    /\ writes' = [writes EXCEPT ![p] = <<>>]
    /\ fresh' = [fresh EXCEPT ![p] = FALSE]

\* Lines 28-29 without the refresh branch: whatever is not valid is granted.
BranchWithoutRefresh(c) ==
    IF c # <<>> /\ Valid(c[1]) THEN "service" ELSE "grant"

\* Lines 28-29 with the test of validity lost: a credential with a refresh
\* token is refreshed even when it is valid.
BranchRefreshesValid(c) ==
    IF c # <<>> /\ c[1].refresh_token # "" THEN "refresh"
    ELSE IF c # <<>> /\ Valid(c[1]) THEN "service"
    ELSE "grant"

\* The branch taken at lines 28-29 for the credential c (<<>> is None).
Branch(c) ==
    IF c # <<>> /\ Valid(c[1]) THEN "service"
    ELSE IF c # <<>> /\ Expired(c[1]) /\ c[1].refresh_token # "" THEN "refresh"
    ELSE "grant"

\* Lines 23-29: read token.json if it exists and choose the branch.  A file
\* that another call has truncated and not yet written does not parse.
LoadToken(p) ==
    /\ At(p, "load")
    /\ IF token_json = TruncatedFile
       THEN /\ Finished(p)
            /\ returned' = Aborted("JSONDecodeError")
       ELSE LET c == token_json.content IN
            /\ creds' = [creds EXCEPT ![p] = c]
            /\ loaded' = [loaded EXCEPT ![p] =
                  IF c = <<>> THEN [NotLoaded EXCEPT !.file = "absent"]
                  ELSE [file |-> "credential", token |-> c[1].token,
                        expired |-> Expired(c[1]),
                        refresh_token |-> c[1].refresh_token]]
            /\ pc' = [pc EXCEPT ![p] = Branch(c)]
            /\ fresh' = [fresh EXCEPT ![p] = c # <<>> /\ ~Expired(c[1])]
            /\ returned' = NoCall
            /\ UNCHANGED <<steps, writes>>
    /\ UNCHANGED <<dispatcher, token_json, issued, expired_upto>>

\* Line 30: creds.refresh(Request()).  The server honours a good refresh
\* token with a new access token, mutating creds in place; it rejects a
\* revoked one (RefreshError), and the request may not reach it at all
\* (TransportError).  Neither exception is caught in get_calendar_service.
Refresh(p) ==
    /\ At(p, "refresh")
    /\ \/ /\ creds[p][1].refresh_token = "rt_good"
          /\ issued < MaxIssued
          /\ issued' = issued + 1
          /\ creds' = [creds EXCEPT ![p] =
                <<Credential(issued + 1, issued + 1, creds[p][1].refresh_token)>>]
          /\ steps' = [steps EXCEPT ![p] = @ \cup {"refresh"}]
          /\ pc' = [pc EXCEPT ![p] = "open"]
          /\ returned' = NoCall
          /\ UNCHANGED <<loaded, writes, fresh>>
       \/ /\ \E exc \in (IF creds[p][1].refresh_token = "rt_good"
                         THEN {"TransportError"}
                         ELSE {"RefreshError", "TransportError"}) :
                returned' = Aborted(exc)
          /\ Finished(p)
          /\ UNCHANGED issued
    /\ UNCHANGED <<dispatcher, token_json, expired_upto>>

\* Lines 32-35: the interactive grant.  It yields a new credential, or fails
\* (the user cancels, credentials.json is missing), which is not caught.
Grant(p) ==
    /\ At(p, "grant")
    /\ \/ /\ issued < MaxIssued
          /\ issued' = issued + 1
          /\ creds' = [creds EXCEPT ![p] =
                <<Credential(issued + 1, issued + 1, "rt_good")>>]
          /\ steps' = [steps EXCEPT ![p] = @ \cup {"grant"}]
          /\ pc' = [pc EXCEPT ![p] = "open"]
          /\ returned' = NoCall
          /\ UNCHANGED <<loaded, writes, fresh>>
       \/ /\ returned' = Aborted("AuthenticationFailure")
          /\ Finished(p)
          /\ UNCHANGED issued
    /\ UNCHANGED <<dispatcher, token_json, expired_upto>>

\* Line 37: open("token.json", "w") truncates the file.
OpenTokenFile(p) ==
    /\ At(p, "open")
    /\ token_json' = TruncatedFile
    /\ pc' = [pc EXCEPT ![p] = "write"]
    /\ returned' = NoCall
    /\ UNCHANGED <<dispatcher, issued, expired_upto, creds, loaded, steps,
                   writes, fresh>>

\* Lines 38-40 with the write lost: the file is closed as it was opened.
WriteTokenSkipped(p) ==
    /\ At(p, "write")
    /\ fresh' = [fresh EXCEPT ![p] = ~Expired(creds[p][1])]
    /\ pc' = [pc EXCEPT ![p] = "service"]
    /\ returned' = NoCall
    /\ UNCHANGED <<dispatcher, token_json, issued, expired_upto, creds, loaded,
                   steps, writes>>

\* Lines 38-40: write creds.to_json(), close the file, build the service.
WriteToken(p) ==
    /\ At(p, "write")
    /\ token_json' = FileWith(creds[p][1])
    /\ writes' = [writes EXCEPT ![p] = Append(@, creds[p][1])]
    /\ fresh' = [fresh EXCEPT ![p] = ~Expired(creds[p][1])]
    /\ pc' = [pc EXCEPT ![p] = "service"]
    /\ returned' = NoCall
    /\ UNCHANGED <<dispatcher, issued, expired_upto, creds, loaded, steps>>

----------------------------------------------------------------------------
\* The calendar provider

\* Event resources the provider may send.  A field the resource lacks is
\* outside the record's domain.
EvTimed ==
    [id |-> "ev1", summary |-> "Standup", description |-> "Daily",
     location |-> "Room 1",
     start |-> [dateTime |-> "2024-01-01T10:00:00Z"],
     end |-> [dateTime |-> "2024-01-01T10:30:00Z"],
     created |-> "2023-12-01T00:00:00Z", updated |-> "2023-12-02T00:00:00Z",
     creator |-> [email |-> "ann@x.org"], organizer |-> [email |-> "bob@x.org"],
     attendees |-> <<[email |-> "cat@x.org", displayName |-> "Cat",
                      responseStatus |-> "accepted"]>>,
     htmlLink |-> "https://cal/ev1", recurringEventId |-> "series1",
     status |-> "confirmed"]

EvAllDay ==
    [id |-> "ev2",
     start |-> [date |-> "2024-01-01"],
     end |-> [date |-> "2024-01-02"],
     creator |-> EmptyDict,
     attendees |-> <<[displayName |-> "Dan"]>>]

EvBoth ==
    [summary |-> "Both",
     start |-> [dateTime |-> "2024-01-03T09:00:00Z", date |-> "2024-01-03"],
     end |-> [dateTime |-> "2024-01-03T10:00:00Z", date |-> "2024-01-03"]]

EvNoStart ==
    [id |-> "ev4", summary |-> "Cancelled",
     end |-> [dateTime |-> "2024-01-04T10:00:00Z"]]

EvEmptyTimes == [id |-> "ev5", start |-> EmptyDict, end |-> EmptyDict]

Events == <<EvTimed, EvAllDay, EvBoth, EvNoStart, EvEmptyTimes>>

CalFull ==
    [id |-> "primary", summary |-> "Me", description |-> "Mine",
     primary |-> TRUE, accessRole |-> "owner",
     backgroundColor |-> "#000000", foregroundColor |-> "#ffffff"]

CalBare == EmptyDict

CalendarEntries == <<CalFull, CalBare>>

\* The sequences over 1..n of length at most k.
RECURSIVE SeqsUpTo(_, _)
SeqsUpTo(n, k) ==
    IF k = 0 THEN {<<>>}
    ELSE LET shorter == SeqsUpTo(n, k - 1) IN
         shorter \cup {Append(s, i) : s \in {t \in shorter : Len(t) = k - 1},
                                      i \in 1..n}

\* The bodies of a successful list response: no "items" key, or a sequence
\* of at most MaxItems resources.
ListBodies(resources) ==
    {EmptyDict} \cup
    {[items |-> [j \in 1..Len(s) |-> resources[s[j]]]] :
        s \in SeqsUpTo(Len(resources), MaxItems)}

HttpStatuses == {404, 500}

\* str() of an HttpError
HttpErrorStr(status) ==
    IF status = 404 THEN "<HttpError 404 \"Not Found\">"
    ELSE "<HttpError 500 \"Backend Error\">"

Ok(body) == [kind |-> "ok", body |-> body, status |-> 200]

HttpError(status) == [kind |-> "HttpError", body |-> EmptyDict, status |-> status]

ServerNotFoundError ==
    [kind |-> "ServerNotFoundError", body |-> EmptyDict, status |-> 0]

\* What .execute() can do: answer, raise HttpError on a failure status of the
\* provider, or raise a transport exception when the provider is not reached.
Outcomes(bodies) ==
    {Ok(b) : b \in bodies} \cup {HttpError(s) : s \in HttpStatuses} \cup {ServerNotFoundError}

\* events().list(...).execute()
EventsListOutcomes == Outcomes(ListBodies(Events))

\* events().get(...).execute() and events().insert(...).execute()
EventOutcomes == Outcomes({Events[i] : i \in 1..Len(Events)})

\* calendarList().list().execute()
CalendarListOutcomes == Outcomes(ListBodies(CalendarEntries))

----------------------------------------------------------------------------
\* Formatting

\* event["start"] and event["end"] raise KeyError on a resource without them.
HasTimes(event) == "start" \in DOMAIN event /\ "end" \in DOMAIN event

\* The extraction with the two fields swapped: the all-day value first.
TimeOfAllDayFirst(time) == Get(time, "date", Get(time, "dateTime", None))

\* time.get("dateTime", time.get("date"))
TimeOf(time) == Get(time, "dateTime", Get(time, "date", None))

\* [attendee.get("email") for attendee in event.get("attendees", [])]
AttendeeEmails(event) ==
    LET attendees == Get(event, "attendees", <<>>) IN
    [i \in 1..Len(attendees) |-> Get(attendees[i], "email", None)]

\* Lines 73-83 with the default of the description lost.
FormatEventNoDefault(event) ==
    [id |-> Get(event, "id", None),
     summary |-> Get(event, "summary", "No title"),
     start |-> TimeOf(event.start),
     end |-> TimeOf(event.end),
     description |-> Get(event, "description", None),
     location |-> Get(event, "location", ""),
     attendees |-> AttendeeEmails(event),
     html_link |-> Get(event, "htmlLink", "")]

\* Lines 73-83 and 307-317: the record of list_upcoming_events and
\* get_events_in_date_range.
FormatEvent(event) ==
    [id |-> Get(event, "id", None),
     summary |-> Get(event, "summary", "No title"),
     start |-> TimeOf(event.start),
     end |-> TimeOf(event.end),
     description |-> Get(event, "description", ""),
     location |-> Get(event, "location", ""),
     attendees |-> AttendeeEmails(event),
     html_link |-> Get(event, "htmlLink", "")]

\* Lines 222-231: the record of search_events.
FormatSearchEvent(event) ==
    [id |-> Get(event, "id", None),
     summary |-> Get(event, "summary", "No title"),
     start |-> TimeOf(event.start),
     end |-> TimeOf(event.end),
     description |-> Get(event, "description", ""),
     location |-> Get(event, "location", ""),
     html_link |-> Get(event, "htmlLink", "")]

\* Lines 107-129: the record of get_event_details.
FormatEventDetails(event) ==
    [id |-> Get(event, "id", None),
     summary |-> Get(event, "summary", "No title"),
     description |-> Get(event, "description", ""),
     location |-> Get(event, "location", ""),
     start |-> TimeOf(event.start),
     end |-> TimeOf(event.end),
     created |-> Get(event, "created", None),
     updated |-> Get(event, "updated", None),
     creator |-> Get(Get(event, "creator", EmptyDict), "email", ""),
     organizer |-> Get(Get(event, "organizer", EmptyDict), "email", ""),
     attendees |->
        LET attendees == Get(event, "attendees", <<>>) IN
        [i \in 1..Len(attendees) |->
            [email |-> Get(attendees[i], "email", None),
             displayName |-> Get(attendees[i], "displayName", ""),
             responseStatus |-> Get(attendees[i], "responseStatus", "")]],
     html_link |-> Get(event, "htmlLink", ""),
     recurring_event_id |-> Get(event, "recurringEventId", None),
     status |-> Get(event, "status", "")]

\* Lines 175-182: the record of create_event.
FormatCreated(event) ==
    [id |-> Get(event, "id", None),
     summary |-> Get(event, "summary", None),
     start |-> Get(event.start, "dateTime", None),
     end |-> Get(event.end, "dateTime", None),
     html_link |-> Get(event, "htmlLink", None),
     status |-> "created"]

\* Lines 254-262: the record of list_calendars.
FormatCalendar(calendar) ==
    [id |-> Get(calendar, "id", None),
     summary |-> Get(calendar, "summary", ""),
     description |-> Get(calendar, "description", ""),
     primary |-> Get(calendar, "primary", FALSE),
     access_role |-> Get(calendar, "accessRole", ""),
     background_color |-> Get(calendar, "backgroundColor", ""),
     foreground_color |-> Get(calendar, "foregroundColor", "")]

\* f"An error occurred: {error}"
ErrorRecord(status) == [error |-> "An error occurred: " \o HttpErrorStr(status)]

\* except HttpError: the only exception an operation catches.
Caught(outcome) == outcome.kind = "HttpError"

\* The record operation o makes of one resource of the provider.
FormatRecord(o, resource) ==
    CASE o \in {"list_upcoming_events", "get_events_in_date_range"} ->
            FormatEvent(resource)
      [] o = "search_events" -> FormatSearchEvent(resource)
      [] o = "get_event_details" -> FormatEventDetails(resource)
      [] o = "create_event" -> FormatCreated(resource)
      [] o = "list_calendars" -> FormatCalendar(resource)

\* The try block of list operation o over the outcome of its remote call.
ListResult(o, outcome) ==
    IF outcome.kind = "ok"
    THEN LET items == Get(outcome.body, "items", <<>>) IN
         IF o \in EventOps /\ \E i \in 1..Len(items) : ~HasTimes(items[i])
         THEN Raise("KeyError")
         ELSE ReturnList([i \in 1..Len(items) |-> FormatRecord(o, items[i])])
    ELSE IF Caught(outcome) THEN ReturnList(<<ErrorRecord(outcome.status)>>)
    ELSE Raise(outcome.kind)

\* The try block of operation o on one event.
OneResult(o, outcome) ==
    IF outcome.kind = "ok"
    THEN IF ~HasTimes(outcome.body) THEN Raise("KeyError")
         ELSE ReturnOne(FormatRecord(o, outcome.body))
    ELSE IF Caught(outcome) THEN ReturnOne(ErrorRecord(outcome.status))
    ELSE Raise(outcome.kind)

\* The service issues the remote call with the credential it was built
\* with, and the operation o ends with the result res.
Execute(p, o, api, body, outcome, res) ==
    /\ returned' = [op |-> o,
                    request |-> <<[api |-> api, token |-> creds[p][1].token,
                                   body |-> body]>>,
                    fresh |-> fresh[p],
                    response |-> <<outcome>>,
                    result |-> res]
    /\ Finished(p)
    /\ UNCHANGED <<dispatcher, token_json, issued, expired_upto>>

\* Lines 57-88
list_upcoming_events(p) ==
    /\ At(p, "service")
    /\ \E outcome \in EventsListOutcomes :
          Execute(p, "list_upcoming_events", "events.list", EmptyDict, outcome,
                  ListResult("list_upcoming_events", outcome))

\* Lines 105-132
get_event_details(p) ==
    /\ At(p, "service")
    /\ \E outcome \in EventOutcomes :
          Execute(p, "get_event_details", "events.get", EmptyDict, outcome,
                  OneResult("get_event_details", outcome))

\* Lines 162-171: the body of the insert; attendees is None (<<>>), or a list.
EventBody(attendees) ==
    LET base == [summary |-> "New", description |-> "", location |-> "",
                 start |-> [dateTime |-> "2024-02-01T10:00:00Z"],
                 end |-> [dateTime |-> "2024-02-01T11:00:00Z"]]
    IN IF attendees # <<>>
       THEN [k \in DOMAIN base \cup {"attendees"} |->
                IF k = "attendees"
                THEN [i \in 1..Len(attendees) |-> [email |-> attendees[i]]]
                ELSE base[k]]
       ELSE base

\* Lines 162-185
create_event(p) ==
    /\ At(p, "service")
    /\ \E attendees \in {<<>>, <<"eve@x.org">>},
          outcome \in EventOutcomes :
          Execute(p, "create_event", "events.insert", EventBody(attendees), outcome,
                  OneResult("create_event", outcome))

\* Lines 207-236
search_events(p) ==
    /\ At(p, "service")
    /\ \E outcome \in EventsListOutcomes :
          Execute(p, "search_events", "events.list", EmptyDict, outcome,
                  ListResult("search_events", outcome))

\* Lines 249-267
list_calendars(p) ==
    /\ At(p, "service")
    /\ \E outcome \in CalendarListOutcomes :
          Execute(p, "list_calendars", "calendarList.list", EmptyDict, outcome,
                  ListResult("list_calendars", outcome))

\* Lines 291-322
get_events_in_date_range(p) ==
    /\ At(p, "service")
    /\ \E outcome \in EventsListOutcomes :
          Execute(p, "get_events_in_date_range", "events.list", EmptyDict, outcome,
                  ListResult("get_events_in_date_range", outcome))

\* Time passes and the oldest unexpired access token expires.  An access
\* token outlives the call of get_calendar_service that obtained it.
TimePasses ==
    /\ expired_upto < issued
    /\ \A p \in Callers :
          pc[p] \in {"open", "write"} => creds[p][1].expiry # expired_upto + 1
    /\ expired_upto' = expired_upto + 1
    /\ returned' = NoCall
    /\ UNCHANGED <<dispatcher, token_json, issued, pc, creds, loaded, steps,
                   writes, fresh>>

Next ==
    \/ \E p \in Callers : Call(p)
    \/ \E p \in Callers : LoadToken(p)
    \/ \E p \in Callers : Refresh(p)
    \/ \E p \in Callers : Grant(p)
    \/ \E p \in Callers : OpenTokenFile(p)
    \/ \E p \in Callers : WriteToken(p)
    \/ \E p \in Callers : list_upcoming_events(p)
    \/ \E p \in Callers : get_event_details(p)
    \/ \E p \in Callers : create_event(p)
    \/ \E p \in Callers : search_events(p)
    \/ \E p \in Callers : list_calendars(p)
    \/ \E p \in Callers : get_events_in_date_range(p)
    \/ TimePasses
    \/ Deliver

Spec == Init /\ [][Next]_vars

----------------------------------------------------------------------------
\* Properties

\* The remote call of the call that has just returned failed.
RemoteFailed ==
    /\ returned.response # <<>>
    /\ returned.response[1].kind # "ok"

\* The remote call of the call that has just returned was answered.
RemoteAnswered ==
    /\ returned.response # <<>>
    /\ returned.response[1].kind = "ok"

\* The result is exactly {"error": <non-empty string>}, in a one-element
\* list for the operations that return lists.
IsErrorResult(res, o) ==
    /\ res.kind = "return"
    /\ res.list = (o \in ListOps)
    /\ Len(res.value) = 1
    /\ DOMAIN res.value[1] = {"error"}
    /\ res.value[1].error # ""

\* C1: whenever the remote call of an operation fails, by an HTTP error of
\* the provider or by a transport failure, the operation returns exactly the
\* error mapping (in a one-element list for list operations) and does not
\* raise.
C1_ErrorShapeOnAnyFailure ==
    RemoteFailed => IsErrorResult(returned.result, returned.op)

\* C2: whatever the provider answers, also an event without start or end,
\* the operation returns a result and does not raise.
C2_NoRaiseOnAnyResponse ==
    RemoteAnswered => returned.result.kind = "return"

\* The call of p found an expired credential with a refresh token the
\* server honours.
LoadedRefreshable(p) ==
    /\ loaded[p].file = "credential"
    /\ loaded[p].expired
    /\ loaded[p].refresh_token = "rt_good"

\* C3: a call that loads an expired credential with a valid refresh token
\* never enters the interactive grant, and when get_calendar_service returns
\* it has refreshed the credential, the credential is non-expired, and
\* exactly that credential has been written to token.json.
C3_RefreshPersistsWithoutGrant ==
    \A p \in Callers :
        LoadedRefreshable(p) =>
            /\ pc[p] # "grant"
            /\ "grant" \notin steps[p]
            /\ pc[p] = "service" =>
                  /\ "refresh" \in steps[p]
                  /\ fresh[p]
                  /\ creds[p][1].token # loaded[p].token
                  /\ writes[p] = <<creds[p][1]>>

C3_Witness ==
    \E p \in Callers :
        /\ LoadedRefreshable(p)
        /\ pc[p] = "service"
        /\ steps[p] = {"refresh"}
        /\ token_json = FileWith(creds[p][1])

\* The call of p found nothing it could use or refresh: no file, or a
\* credential that is neither valid nor expired with a refresh token.
LoadedUnusable(p) ==
    \/ loaded[p].file = "absent"
    \/ /\ loaded[p].file = "credential"
       /\ loaded[p].token = 0 \/ loaded[p].expired
       /\ ~(loaded[p].expired /\ loaded[p].refresh_token # "")

\* C4: a call that cannot get a valid credential from token.json runs the
\* interactive grant and writes the granted credential before the service is
\* built; a call whose refresh attempt fails goes on to the grant, so no call
\* ends with the exception of a failed refresh.
C4_FailedRefreshLeadsToGrant ==
    /\ \A p \in Callers :
          (LoadedUnusable(p) /\ pc[p] = "service") =>
              /\ steps[p] = {"grant"}
              /\ writes[p] = <<creds[p][1]>>
    /\ returned.result.kind = "raise" =>
          returned.result.exc \notin {"RefreshError", "TransportError"}

\* The events behind the records of the call that has just returned.
SourceEvents ==
    IF returned.result.list
    THEN Get(returned.response[1].body, "items", <<>>)
    ELSE <<returned.response[1].body>>

\* An operation on events has just returned records made from an answer.
ReturnedEvents ==
    /\ RemoteAnswered
    /\ returned.result.kind = "return"
    /\ returned.op \in EventOps

\* The timed value when present, else the all-day value, else None.
TimedElseAllDay(time) ==
    IF "dateTime" \in DOMAIN time THEN time.dateTime
    ELSE IF "date" \in DOMAIN time THEN time.date
    ELSE None

\* The timed value when present, else None.
TimedOnly(time) ==
    IF "dateTime" \in DOMAIN time THEN time.dateTime ELSE None

RecordKeys(o) ==
    CASE o \in {"list_upcoming_events", "get_events_in_date_range"} ->
            {"id", "summary", "start", "end", "description", "location",
             "attendees", "html_link"}
      [] o = "search_events" ->
            {"id", "summary", "start", "end", "description", "location",
             "html_link"}
      [] o = "get_event_details" ->
            {"id", "summary", "description", "location", "start", "end",
             "created", "updated", "creator", "organizer", "attendees",
             "html_link", "recurring_event_id", "status"}
      [] o = "create_event" ->
            {"id", "summary", "start", "end", "html_link", "status"}
      [] o = "list_calendars" ->
            {"id", "summary", "description", "primary", "access_role",
             "background_color", "foreground_color"}

\* The keys whose value is a string or None (start and end are C5's).
StringKeys(o) == RecordKeys(o) \ {"attendees", "primary", "start", "end"}

\* The field of the provider's resource a key of a record is read from.
SourceField(key) ==
    CASE key = "html_link" -> "htmlLink"
      [] key = "recurring_event_id" -> "recurringEventId"
      [] key = "access_role" -> "accessRole"
      [] key = "background_color" -> "backgroundColor"
      [] key = "foreground_color" -> "foregroundColor"
      [] OTHER -> key

\* The keys the code reads without a default.
NullableKeys(o) ==
    IF o = "create_event" THEN {"id", "summary", "html_link"}
    ELSE IF o = "get_event_details"
         THEN {"id", "created", "updated", "recurring_event_id"}
         ELSE {"id"}

\* An operation has just returned records made from an answer.
ReturnedRecords ==
    /\ RemoteAnswered
    /\ returned.result.kind = "return"

\* No attendee of the record is None or carries a None.
AttendeesWithoutNone(o, attendees) ==
    \A j \in 1..Len(attendees) :
        IF o = "get_event_details"
        THEN /\ DOMAIN attendees[j] = {"email", "displayName", "responseStatus"}
             /\ \A k \in DOMAIN attendees[j] : attendees[j][k] # None
        ELSE attendees[j] # None

AttendeeEmailNoneOnlyIfAbsent(o, attendees, sources) ==
    /\ Len(attendees) = Len(sources)
    /\ \A j \in 1..Len(attendees) :
          LET email == IF o = "get_event_details" THEN attendees[j].email
                       ELSE attendees[j]
          IN /\ (email = None) = ("email" \notin DOMAIN sources[j])
             /\ o = "get_event_details" =>
                   /\ DOMAIN attendees[j] = {"email", "displayName", "responseStatus"}
                   /\ attendees[j].displayName # None
                   /\ attendees[j].responseStatus # None

SaysCreated ==
    /\ returned.result.kind = "return"
    /\ "status" \in DOMAIN returned.result.value[1]
    /\ returned.result.value[1].status = "created"

\* C7: create_event says "created" exactly when the insert succeeded, then
\* with a non-empty id; on any failure of the insert the result is the error
\* mapping, without id and without status.
C7_CreatedIffInserted ==
    returned.op = "create_event" =>
        /\ SaysCreated = RemoteAnswered
        /\ SaysCreated => returned.result.value[1].id \notin {None, ""}
        /\ RemoteFailed =>
              /\ IsErrorResult(returned.result, "create_event")
              /\ {"id", "status"} \cap DOMAIN returned.result.value[1] = {}

\* The exceptions with which get_calendar_service ends a call.
ServiceExceptions ==
    {"JSONDecodeError", "RefreshError", "TransportError", "AuthenticationFailure"}

\* C8: every remote call goes out with a credential that has an access token
\* and was non-expired when get_calendar_service returned it; a call in
\* which get_calendar_service fails issues no remote call.
C8_RemoteCallsCarryFreshCredential ==
    /\ \A p \in Callers :
          pc[p] = "service" => creds[p] # <<>> /\ creds[p][1].token # 0 /\ fresh[p]
    /\ returned.request # <<>> =>
          /\ returned.fresh
          /\ returned.request[1].token # 0
          /\ returned.result.exc \notin ServiceExceptions
    /\ returned.result.exc \in ServiceExceptions => returned.request = <<>>

C8_Witness ==
    /\ returned.request # <<>>
    /\ returned.request[1].token = issued
    /\ issued > 1
    /\ returned.fresh

\* No call is between obtaining a credential and writing it.
NoWritePending == \A p \in Callers : pc[p] \notin {"open", "write"}

\* token.json holds the access token issued last.
StoreCurrent ==
    /\ token_json.content # <<>>
    /\ token_json.content[1].token = issued

\* Both calls have refreshed the credential and written it, and the write
\* that came last put the older of the two tokens into token.json.
LostUpdate ==
    \E p, q \in Callers :
        /\ p # q
        /\ pc[p] = "service" /\ pc[q] = "service"
        /\ steps[p] = {"refresh"} /\ steps[q] = {"refresh"}
        /\ Len(writes[p]) = 1 /\ Len(writes[q]) = 1
        /\ creds[q][1].token = issued
        /\ creds[p][1].token < issued
        /\ token_json = FileWith(creds[p][1])

\* C9: under one-at-a-time invocation no update is lost: once a token has
\* been issued and no write is pending, token.json holds the token issued
\* last.  (Under interleaved invocation the lost update is reachable: the
\* witness.)
C9_SerialKeepsStoreCurrent ==
    dispatcher = "serial" =>
        /\ ~LostUpdate
        /\ (issued > 1 /\ NoWritePending) => StoreCurrent

C9_Witness ==
    /\ dispatcher = "concurrent"
    /\ LostUpdate
    /\ NoWritePending
    /\ ~StoreCurrent

\* The call of p found a valid credential.
LoadedValid(p) ==
    /\ loaded[p].file = "credential"
    /\ loaded[p].token # 0
    /\ ~loaded[p].expired

\* What a call has done to token.json so far.
WritesOnlyAfterRefreshOrGrant ==
    \A p \in Callers :
        /\ LoadedValid(p) =>
              /\ steps[p] = {}
              /\ writes[p] = <<>>
              /\ pc[p] \notin {"refresh", "grant", "open", "write"}
        /\ Len(writes[p]) <= 1
        /\ writes[p] # <<>> => steps[p] # {}
        /\ (pc[p] = "service" /\ steps[p] # {}) => Len(writes[p]) = 1
        /\ Cardinality(steps[p]) <= 1

\* token.json changes only in a step of a call that has refreshed or been
\* granted a credential and has not written it yet.
StoreChangedOnlyByWriter ==
    token_json' # token_json =>
        \E p \in Callers :
            /\ pc[p] \in {"open", "write"}
            /\ pc'[p] # pc[p]
            /\ steps[p] # {}
            /\ writes[p] = <<>>

\* C10: a call that finds a valid credential neither refreshes nor grants
\* nor touches token.json; token.json is written only by a call that
\* refreshed or was granted a credential, and exactly once by such a call.
C10_StoreFrame ==
    []WritesOnlyAfterRefreshOrGrant /\ [][StoreChangedOnlyByWriter]_vars

C10_Witness ==
    \E p, q \in Callers :
        /\ LoadedValid(p) /\ pc[p] = "service" /\ writes[p] = <<>>
        /\ steps[q] = {"grant"} /\ pc[q] = "service" /\ Len(writes[q]) = 1

====
